---- MODULE Spec2Model ----
(***************************************************************************)
(* Offline queue and point-of-sale checkout of wawan1986/selis.            *)
(*                                                                         *)
(* PwaProvider (src/unnamed/part_006) keeps the network status and the     *)
(* pending-operation queue in React state and mirrors the queue to         *)
(* localStorage['pendingOperations'] from a passive effect.  POSInterface  *)
(* (src/unnamed/part_003) keeps cart and menu items in component state and *)
(* writes transactions and menu items to localStorage on checkout.         *)
(*                                                                         *)
(* The queue is modelled as two things: the state cell pendingOperations   *)
(* (the value the next render will show, with every queued updater         *)
(* applied) and renderedOps (the value the closures of the last committed  *)
(* render captured, which is what processPendingOperations reads).  Render *)
(* commits the cell and runs the persist effect.  A page reload, or the    *)
(* death of the tab, can fall between a handler and that render.           *)
(***************************************************************************)
EXTENDS Integers, Sequences, FiniteSets, TLC

VARIABLES
    networkStatus,      \* PwaProvider state cell: "online" | "offline"
    pendingOperations,  \* PwaProvider state cell: the queue
    renderedOps,        \* pendingOperations as the last committed render captured it
    mounting,           \* the mount effects have run, the render they queued has not
    storedOps,          \* localStorage['pendingOperations'] (JSON text, as a sequence of encoded entries)
    toasts,             \* titles of the notifications emitted by the last step
    remoteLog,          \* mutations the remote system has received from the reconciler
    page,               \* mounted route: "pos" | "history" | "settings"
    menuItems,          \* POSInterface state: stock of each menu item
    savedMenuItems,     \* localStorage['menuItems']: stock of each menu item
    cart,               \* POSInterface state: sequence of [id, quantity]
    paymentMethod,      \* POSInterface state: "cash" | "qris"
    isHolidayMode,      \* POSInterface state, read from localStorage at mount
    holidayModeStored,  \* localStorage['holidayMode-<storeId>'] = 'true'
    transactions,       \* localStorage['transactions']
    stockControlBuild,  \* which StockControl the build routes: "local" | "remote"
    stockItems,         \* StockControl state: list of [id, currentStock, initialStock, storeId]
    savedStockItems,    \* localStorage['stockItems'] (<<>>: no such key)
    sellingStartedStores, \* StockControl state: list of store ids
    savedSellingStarted,  \* localStorage['sellingStartedStores'] (<<>>: no such key, or [])
    selectedStoreId,    \* StockControl state: "" or a store id
    storeStocks         \* remote table store_stocks, today's rows: [store, item] -> row

pwaVars == <<networkStatus, pendingOperations, renderedOps, mounting, storedOps>>
posVars == <<page, menuItems, savedMenuItems, cart, paymentMethod, isHolidayMode,
             holidayModeStored, transactions>>
stockVars == <<stockControlBuild, stockItems, savedStockItems, sellingStartedStores,
               savedSellingStarted, selectedStoreId, storeStocks>>
vars == <<networkStatus, pendingOperations, renderedOps, mounting, storedOps,
          toasts, remoteLog, page, menuItems, savedMenuItems,
          cart, paymentMethod, isHolidayMode, holidayModeStored, transactions,
          stockControlBuild, stockItems, savedStockItems, sellingStartedStores,
          savedSellingStarted, selectedStoreId, storeStocks>>

(***************************************************************************)
(* Bounds of the model.                                                    *)
(***************************************************************************)
MaxQueue == 2
MaxStock == 2
MaxClock == 0
MaxTransactions == 1
MaxStarted == 2
MaxStockQueue == 1
MaxAdjust == 1
MaxSessionTransactions == 2

Range(q) == {q[i] : i \in 1..Len(q)}

Items == {1, 2}
\* Readings of Date.now(), a wall clock: a handler reads any of them.
Clock == 0..MaxClock
StoreId == "store-1"
CashierId == "user-1"
BranchId == "branch-1"

\* Mock catalogue prices of menu items '1' and '2'.
cashPrice(id) == IF id = 1 THEN 20000 ELSE 18000
qrisPrice(id) == IF id = 1 THEN 22000 ELSE 20000

(***************************************************************************)
(* JSON.stringify / JSON.parse of the queue: an entry is written as the    *)
(* text of its three members, an array as the sequence of its entries.     *)
(***************************************************************************)
JsonStringify(ops) == [i \in 1..Len(ops) |-> <<ops[i].type, ops[i].data, ops[i].timestamp>>]
JsonParse(text) == [i \in 1..Len(text) |->
                      [type |-> text[i][1], data |-> text[i][2], timestamp |-> text[i][3]]]

(***************************************************************************)
(* PwaProvider                                                             *)
(***************************************************************************)
\* setPendingOperations(prev => [...prev, { ...operation, timestamp }])
\* addPendingOperation replacing a queued entry of the same type.
addPendingOperation_Coalescing(prev, operation, now) ==
    IF \E i \in 1..Len(prev) : prev[i].type = operation.type
    THEN [i \in 1..Len(prev) |->
            IF prev[i].type = operation.type
            THEN [type |-> operation.type, data |-> operation.data, timestamp |-> now]
            ELSE prev[i]]
    ELSE Append(prev, [type |-> operation.type, data |-> operation.data, timestamp |-> now])

addPendingOperation(prev, operation, now) ==
    Append(prev, [type |-> operation.type, data |-> operation.data, timestamp |-> now])

\* setPendingOperations([])
clearPendingOperations == <<>>

\* The body of processPendingOperations, run with the network status and the
\* queue its closure captured.  No request is issued: the try block emits the
\* success toast and clears the queue, and nothing in it can throw.
processPendingOperations(status, ops) ==
    IF status = "offline" \/ Len(ops) = 0
    THEN [toasts |-> <<>>, cleared |-> FALSE, sent |-> <<>>]
    ELSE [toasts |-> <<"Sync complete">>, cleared |-> TRUE, sent |-> <<>>]

\* Mount: the load effect parses the stored queue when the item is truthy.
\* The stored text is never the empty string, so every stored queue is loaded.
LoadPendingOperations(text) == JsonParse(text)

\* useState<Array<any>>([]): the queue the closures of the first render captured.
FirstRenderOps == <<>>

(***************************************************************************)
(* POSInterface                                                            *)
(***************************************************************************)
RECURSIVE IndexOf(_, _, _)
\* prevCart.find(cartItem => cartItem.id === id): index of the line, 0 if none
IndexOf(c, id, i) ==
    IF i > Len(c) THEN 0 ELSE IF c[i].id = id THEN i ELSE IndexOf(c, id, i + 1)

InCart(c, id) == IndexOf(c, id, 1) # 0
CartQuantity(c, id) == IF InCart(c, id) THEN c[IndexOf(c, id, 1)].quantity ELSE 0

\* addToCart without the check of the line's quantity against the stock.
addToCart_Unchecked(c, id, stock) ==
    IF stock <= 0
    THEN [cart |-> c, toasts |-> <<"Out of stock">>]
    ELSE IF InCart(c, id)
         THEN [cart |-> [i \in 1..Len(c) |->
                            IF c[i].id = id
                            THEN [id |-> id, quantity |-> c[i].quantity + 1]
                            ELSE c[i]],
               toasts |-> <<>>]
         ELSE [cart |-> Append(c, [id |-> id, quantity |-> 1]), toasts |-> <<>>]

\* addToCart(item), with item.stock the stock of the menu item clicked
addToCart(c, id, stock) ==
    IF stock <= 0
    THEN [cart |-> c, toasts |-> <<"Out of stock">>]
    ELSE IF InCart(c, id)
         THEN IF CartQuantity(c, id) >= stock
              THEN [cart |-> c, toasts |-> <<"Stock limit reached">>]
              ELSE [cart |-> [i \in 1..Len(c) |->
                                 IF c[i].id = id
                                 THEN [id |-> id, quantity |-> c[i].quantity + 1]
                                 ELSE c[i]],
                    toasts |-> <<>>]
         ELSE [cart |-> Append(c, [id |-> id, quantity |-> 1]), toasts |-> <<>>]

\* removeFromCart(itemId)
removeFromCart(c, id) == SelectSeq(c, LAMBDA l : l.id # id)

\* updateCartItemQuantity without the check of the new quantity against the stock.
updateCartItemQuantity_Unchecked(c, id, newQuantity, stock) ==
    IF newQuantity <= 0
    THEN [cart |-> removeFromCart(c, id), toasts |-> <<>>]
    ELSE [cart |-> [i \in 1..Len(c) |->
                       IF c[i].id = id
                       THEN [id |-> id, quantity |-> newQuantity]
                       ELSE c[i]],
          toasts |-> <<>>]

\* updateCartItemQuantity(itemId, newQuantity)
updateCartItemQuantity(c, id, newQuantity, stock) ==
    IF newQuantity <= 0
    THEN [cart |-> removeFromCart(c, id), toasts |-> <<>>]
    ELSE IF newQuantity > stock
         THEN [cart |-> c, toasts |-> <<"Stock limit reached">>]
         ELSE [cart |-> [i \in 1..Len(c) |->
                            IF c[i].id = id
                            THEN [id |-> id, quantity |-> newQuantity]
                            ELSE c[i]],
               toasts |-> <<>>]

\* calculateTotal pricing every line at its cash price.
calculateTotal_CashOnly(c, method) ==
    cashPrice(1) * CartQuantity(c, 1) + cashPrice(2) * CartQuantity(c, 2)

RECURSIVE calculateTotal(_, _)
\* cart.reduce((total, item) => total + price * item.quantity, 0)
calculateTotal(c, method) ==
    IF c = <<>> THEN 0
    ELSE calculateTotal(SubSeq(c, 1, Len(c) - 1), method)
         + (IF method = "cash" THEN cashPrice(c[Len(c)].id) ELSE qrisPrice(c[Len(c)].id))
           * c[Len(c)].quantity

\* The Transaction record handleCheckout builds.
NewTransaction(c, method, now) ==
    [id |-> now, items |-> c, total |-> calculateTotal(c, method),
     paymentMethod |-> method, timestamp |-> now,
     storeId |-> StoreId, cashierId |-> CashierId]

\* menuItems.map(item => cartItem ? { ...item, stock: item.stock - cartItem.quantity } : item)
\* The stock update lowering a sold item by one unit, whatever its quantity.
UpdatedMenuItems_ByOne(items, c) ==
    [i \in Items |-> IF InCart(c, i) THEN items[i] - 1 ELSE items[i]]

UpdatedMenuItems(items, c) ==
    [i \in Items |-> IF InCart(c, i) THEN items[i] - CartQuantity(c, i) ELSE items[i]]

\* The two enqueues of an offline checkout made in the opposite order.
CheckoutOperations_StockFirst(prev, transaction, c, now) ==
    addPendingOperation(
        addPendingOperation(prev, [type |-> "UPDATE_STOCK", data |-> [items |-> c]], now),
        [type |-> "CREATE_TRANSACTION", data |-> transaction], now)

\* The two enqueues of an offline checkout, in the order the handler makes them.
CheckoutOperations(prev, transaction, c, now) ==
    addPendingOperation(
        addPendingOperation(prev, [type |-> "CREATE_TRANSACTION", data |-> transaction], now),
        [type |-> "UPDATE_STOCK", data |-> [items |-> c]], now)

\* The operation StoreSettings queues when the holiday switch is flipped offline.
HolidayOperation(enabled, now) ==
    [type |-> "UPDATE_HOLIDAY_MODE",
     data |-> [storeId |-> StoreId, branchId |-> BranchId,
               holidayMode |-> enabled, timestamp |-> now]]

(***************************************************************************)
(* StockControl (src/src/pages/manager/StockControl.tsx, and the build     *)
(* with the remote tables in src/unnamed/part_002)                         *)
(***************************************************************************)
\* The stores of the manager's branch, in the order of localStorage['stores'].
Stores == <<"store-1", "store-2">>
StockItemIds == {1, 2}
\* The initialStock a stock item is configured with.
InitialStock(id) == IF id = 1 THEN MaxStock ELSE 1

\* mockStockItems: the list the page starts from when nothing is stored.
MockStockItems ==
    <<[id |-> 1, currentStock |-> 0, initialStock |-> InitialStock(1), storeId |-> ""],
      [id |-> 2, currentStock |-> 0, initialStock |-> InitialStock(2), storeId |-> ""]>>

\* The rows of the remote table stock_items as the remote build formats them.
FormattedStockItems ==
    <<[id |-> 1, currentStock |-> InitialStock(1), initialStock |-> InitialStock(1),
       storeId |-> ""]>>

\* A row of store_stocks; NoRow where the table has none for today.
NoRow == [present |-> FALSE, quantity |-> 0, is_active |-> FALSE]
Row(quantity, active) == [present |-> TRUE, quantity |-> quantity, is_active |-> active]

isSellingStarted(started, storeId) == \E k \in 1..Len(started) : started[k] = storeId

\* The "Current Stock" cell of the k-th row of the stock table: the item's
\* stock in an input while selling has started for the selected store, the
\* literal 0 otherwise.
CurrentStockCell(items, started, selected, k) ==
    IF isSellingStarted(started, selected) THEN items[k].currentStock ELSE 0

\* getStoreStockItems() with an empty search term
getStoreStockItems(items, selected) ==
    SelectSeq(items, LAMBDA item : item.storeId = "" \/ item.storeId = selected)

\* handleStartSelling assigning the items to the store without resetting them.
StartSellingItems_KeepsStock(items, selected) ==
    [k \in 1..Len(items) |->
        IF items[k].storeId = "" \/ items[k].storeId = selected
        THEN [items[k] EXCEPT !.storeId = selected]
        ELSE items[k]]

\* updatedItems of handleStartSelling
StartSellingItems(items, selected) ==
    [k \in 1..Len(items) |->
        IF items[k].storeId = "" \/ items[k].storeId = selected
        THEN [items[k] EXCEPT !.currentStock = items[k].initialStock,
                              !.storeId = selected]
        ELSE items[k]]

\* updatedItems of handleStartSelling in the remote build
StartSellingItemsRemote(items, selected) ==
    [k \in 1..Len(items) |->
        [items[k] EXCEPT !.currentStock = items[k].initialStock, !.storeId = selected]]

\* updatedItems of handleEndSelling
EndSellingItems(items, selected) ==
    [k \in 1..Len(items) |->
        IF items[k].storeId = selected
        THEN [items[k] EXCEPT !.currentStock = 0]
        ELSE items[k]]

\* updatedSellingStarted of handleEndSelling
EndSellingStarted(started, selected) == SelectSeq(started, LAMBDA id : id # selected)

\* handleStockChange writing the new stock into every item.
StockChangeItems_EveryItem(items, itemId, newStock, selected) ==
    [k \in 1..Len(items) |->
        [items[k] EXCEPT !.currentStock = newStock, !.storeId = selected]]

\* updatedItems of handleStockChange
StockChangeItems(items, itemId, newStock, selected) ==
    [k \in 1..Len(items) |->
        IF items[k].id = itemId
        THEN [items[k] EXCEPT !.currentStock = newStock, !.storeId = selected]
        ELSE items[k]]

StartSellingOperation(updatedItems, selected, now) ==
    [type |-> "START_SELLING",
     data |-> [storeId |-> selected, branchId |-> BranchId,
               items |-> SelectSeq(updatedItems, LAMBDA item : item.storeId = selected),
               timestamp |-> now]]

EndSellingOperation(selected, now) ==
    [type |-> "END_SELLING",
     data |-> [storeId |-> selected, branchId |-> BranchId, timestamp |-> now]]

StockItemOperation(selected, itemId, newStock, now) ==
    [type |-> "UPDATE_STOCK_ITEM",
     data |-> [storeId |-> selected, branchId |-> BranchId, itemId |-> itemId,
               newStock |-> newStock, timestamp |-> now]]

\* The stores that have an active row in store_stocks, as the mount of the
\* remote build collects them.
ActiveStoreIds(rows) ==
    SelectSeq(Stores, LAMBDA s : \E i \in StockItemIds :
                                    rows[<<s, i>>].present /\ rows[<<s, i>>].is_active)

\* State of StockControl after its mount effect: stores, stock items and
\* selling status read from localStorage.
StockMountLocal(savedItems, savedStarted) ==
    [stockItems |-> IF savedItems # <<>> THEN savedItems ELSE MockStockItems,
     sellingStartedStores |-> savedStarted,
     selectedStoreId |-> Stores[1]]

\* State of StockControl of the remote build after fetchData: from the remote
\* tables when the fetch succeeds, from localStorage when it throws.
StockMountRemote(fetched, savedItems, savedStarted, rows) ==
    IF fetched
    THEN [stockItems |-> FormattedStockItems,
          sellingStartedStores |-> ActiveStoreIds(rows),
          selectedStoreId |-> Stores[1]]
    ELSE [stockItems |-> savedItems,
          sellingStartedStores |-> savedStarted,
          selectedStoreId |-> Stores[1]]

(***************************************************************************)
(* Initial state: the application is mounted and its effects have run, on  *)
(* the point-of-sale route, with a saved catalogue and an empty queue.     *)
(***************************************************************************)
Init ==
    /\ networkStatus \in {"online", "offline"}
    /\ pendingOperations = <<>>
    /\ renderedOps = <<>>
    /\ mounting = FALSE
    /\ storedOps = JsonStringify(<<>>)
    /\ toasts = <<>>
    /\ remoteLog = <<>>
    /\ page = "pos"
    /\ savedMenuItems = [i \in Items |-> IF i = 1 THEN MaxStock ELSE 1]
    /\ menuItems = savedMenuItems
    /\ cart = <<>>
    /\ paymentMethod = "cash"
    /\ isHolidayMode = FALSE
    /\ holidayModeStored = FALSE
    /\ transactions = <<>>
    /\ stockControlBuild = "local"
    /\ stockItems = <<>>
    /\ savedStockItems = <<>>
    /\ sellingStartedStores = <<>>
    /\ savedSellingStarted = <<>>
    /\ selectedStoreId = ""
    /\ storeStocks = [r \in Range(Stores) \X StockItemIds |-> NoRow]

\* The mount of POSInterface without the holiday-mode load.
PosMount_WithoutHolidayLoad ==
    /\ menuItems' = savedMenuItems'
    /\ cart' = <<>>
    /\ paymentMethod' = "cash"
    /\ isHolidayMode' = FALSE

\* State of POSInterface right after it mounts and its effect has run.
PosMount ==
    /\ menuItems' = savedMenuItems'
    /\ cart' = <<>>
    /\ paymentMethod' = "cash"
    /\ isHolidayMode' = holidayModeStored'

\* A cart that outlives the component (kept in a store outside it).
PosUnmount_KeepsCart ==
    /\ menuItems' = savedMenuItems'
    /\ cart' = cart
    /\ paymentMethod' = "cash"
    /\ isHolidayMode' = FALSE

\* POSInterface is not mounted: its state does not exist.
PosUnmount ==
    /\ menuItems' = savedMenuItems'
    /\ cart' = <<>>
    /\ paymentMethod' = "cash"
    /\ isHolidayMode' = FALSE

\* The toast of POSInterface's mount effect when the store is in holiday mode.
MountToasts(p) ==
    IF p = "pos" /\ holidayModeStored THEN <<"Holiday Mode Active">> ELSE <<>>

\* StockControl is not mounted: its state does not exist.
StockUnmount ==
    /\ stockItems' = <<>>
    /\ sellingStartedStores' = <<>>
    /\ selectedStoreId' = ""

\* StockControl mounts; fetched tells whether the remote build's fetch succeeded.
StockMount(fetched) ==
    LET m == IF stockControlBuild = "local"
             THEN StockMountLocal(savedStockItems, savedSellingStarted)
             ELSE StockMountRemote(fetched, savedStockItems, savedSellingStarted,
                                   storeStocks)
    IN  /\ stockItems' = m.stockItems
        /\ sellingStartedStores' = m.sellingStartedStores
        /\ selectedStoreId' = m.selectedStoreId

\* The toast of the remote build's mount when its fetch throws.
StockMountToasts(p, fetched) ==
    IF p = "stock" /\ stockControlBuild = "remote" /\ ~fetched
    THEN <<"Error fetching data">>
    ELSE <<>>

\* Room for one more queue entry on the stock-control route (bound of the model).
StockRoom == Len(pendingOperations) < MaxStockQueue

\* Room for n more queue entries (bound of the model).
Room(n) == Len(pendingOperations) + n <= MaxQueue

(***************************************************************************)
(* PwaProvider steps                                                       *)
(***************************************************************************)
\* window 'offline' event
HandleOffline ==
    /\ networkStatus = "online"
    /\ networkStatus' = "offline"
    /\ toasts' = <<"You're offline">>
    /\ UNCHANGED <<pendingOperations, renderedOps, mounting, storedOps, remoteLog>>
    /\ UNCHANGED posVars
    /\ UNCHANGED stockVars

\* window 'online' event.  The listener was registered by the mount effect
\* (dependency list []), so the processPendingOperations it calls is the one of
\* the first render.
HandleOnline ==
    \E firstRenderStatus \in {"online", "offline"} :
    LET r == processPendingOperations(firstRenderStatus, FirstRenderOps) IN
    /\ networkStatus = "offline"
    /\ networkStatus' = "online"
    /\ toasts' = <<"You're back online">> \o r.toasts
    /\ pendingOperations' = IF r.cleared THEN clearPendingOperations ELSE pendingOperations
    /\ remoteLog' = remoteLog \o r.sent
    /\ UNCHANGED <<renderedOps, mounting, storedOps>>
    /\ UNCHANGED posVars
    /\ UNCHANGED stockVars

\* A consumer of the context calls processPendingOperations of the last render.
ProcessPendingOperationsCall ==
    LET r == processPendingOperations(networkStatus, renderedOps) IN
    /\ toasts' = r.toasts
    /\ pendingOperations' = IF r.cleared THEN clearPendingOperations ELSE pendingOperations
    /\ remoteLog' = remoteLog \o r.sent
    /\ UNCHANGED <<networkStatus, renderedOps, mounting, storedOps>>
    /\ UNCHANGED posVars
    /\ UNCHANGED stockVars

\* React commits the queued updates of the queue; the persist effect, whose
\* dependency is the queue, runs.
Render ==
    /\ mounting \/ renderedOps # pendingOperations
    /\ renderedOps' = pendingOperations
    /\ mounting' = FALSE
    /\ storedOps' = JsonStringify(pendingOperations)
    /\ toasts' = <<>>
    /\ UNCHANGED <<networkStatus, pendingOperations, remoteLog>>
    /\ UNCHANGED posVars
    /\ UNCHANGED stockVars

\* The page is reloaded (window.location.reload() when a new service worker
\* activates, or the user).  First render: the queue is [], the load effect
\* queues the stored queue, the persist effect writes the rendered [].
Reload ==
    \E fetched \in BOOLEAN :
    /\ renderedOps' = FirstRenderOps
    /\ pendingOperations' = LoadPendingOperations(storedOps)
    /\ mounting' = TRUE
    /\ storedOps' = JsonStringify(FirstRenderOps)
    /\ toasts' = MountToasts(page) \o StockMountToasts(page, fetched)
    /\ UNCHANGED <<networkStatus, remoteLog>>
    /\ UNCHANGED <<page, savedMenuItems, holidayModeStored, transactions>>
    /\ IF page = "pos" THEN PosMount ELSE PosUnmount
    /\ UNCHANGED <<stockControlBuild, savedStockItems, savedSellingStarted, storeStocks>>
    /\ IF page = "stock" THEN StockMount(fetched) ELSE StockUnmount

(***************************************************************************)
(* Routing                                                                 *)
(***************************************************************************)
\* The user opens another route; POSInterface mounts on /pos.
Navigate(p) ==
    \E fetched \in BOOLEAN :
    /\ p # page
    /\ page' = p
    /\ toasts' = MountToasts(p) \o StockMountToasts(p, fetched)
    /\ UNCHANGED <<savedMenuItems, holidayModeStored, transactions>>
    /\ IF p = "pos" THEN PosMount ELSE PosUnmount
    /\ UNCHANGED <<stockControlBuild, savedStockItems, savedSellingStarted, storeStocks>>
    /\ IF p = "stock" THEN StockMount(fetched) ELSE StockUnmount
    /\ UNCHANGED remoteLog
    /\ UNCHANGED pwaVars

(***************************************************************************)
(* StoreSettings                                                           *)
(***************************************************************************)
\* handleHolidayModeToggle queueing its operation whatever the network status.
HandleHolidayModeToggle_AlwaysQueues(enabled, now) ==
    /\ page = "settings"
    /\ enabled # holidayModeStored
    /\ Room(1)
    /\ holidayModeStored' = enabled
    /\ pendingOperations' =
          addPendingOperation(pendingOperations, HolidayOperation(enabled, now), now)
    /\ toasts' = <<IF enabled THEN "Holiday mode enabled" ELSE "Holiday mode disabled">>
    /\ UNCHANGED <<networkStatus, renderedOps, mounting, storedOps>>
    /\ UNCHANGED remoteLog
    /\ UNCHANGED <<page, menuItems, savedMenuItems, cart, paymentMethod, isHolidayMode,
                   transactions>>
    /\ UNCHANGED stockVars

HandleHolidayModeToggle(enabled, now) ==
    /\ page = "settings"
    /\ enabled # holidayModeStored
    /\ networkStatus = "offline" => Room(1)
    /\ holidayModeStored' = enabled
    /\ pendingOperations' =
          IF networkStatus = "offline"
          THEN addPendingOperation(pendingOperations, HolidayOperation(enabled, now), now)
          ELSE pendingOperations
    /\ toasts' = <<IF enabled THEN "Holiday mode enabled" ELSE "Holiday mode disabled">>
    /\ UNCHANGED <<networkStatus, renderedOps, mounting, storedOps>>
    /\ UNCHANGED remoteLog
    /\ UNCHANGED <<page, menuItems, savedMenuItems, cart, paymentMethod, isHolidayMode,
                   transactions>>
    /\ UNCHANGED stockVars

(***************************************************************************)
(* POSInterface steps                                                      *)
(***************************************************************************)
AddToCart(id) ==
    LET r == addToCart(cart, id, menuItems[id]) IN
    /\ page = "pos"
    /\ cart' = r.cart
    /\ toasts' = r.toasts
    /\ UNCHANGED <<page, menuItems, savedMenuItems, paymentMethod, isHolidayMode,
                   holidayModeStored, transactions>>
    /\ UNCHANGED remoteLog
    /\ UNCHANGED pwaVars
    /\ UNCHANGED stockVars

UpdateCartItemQuantity(id, newQuantity) ==
    LET r == updateCartItemQuantity(cart, id, newQuantity, menuItems[id]) IN
    /\ page = "pos"
    /\ cart' = r.cart
    /\ toasts' = r.toasts
    /\ UNCHANGED <<page, menuItems, savedMenuItems, paymentMethod, isHolidayMode,
                   holidayModeStored, transactions>>
    /\ UNCHANGED remoteLog
    /\ UNCHANGED pwaVars
    /\ UNCHANGED stockVars

SetPaymentMethod(method) ==
    /\ page = "pos"
    /\ method # paymentMethod
    /\ paymentMethod' = method
    /\ toasts' = <<>>
    /\ UNCHANGED <<page, menuItems, savedMenuItems, cart, isHolidayMode,
                   holidayModeStored, transactions>>
    /\ UNCHANGED remoteLog
    /\ UNCHANGED pwaVars
    /\ UNCHANGED stockVars

\* handleCheckout, first return: holiday mode
CheckoutHoliday ==
    /\ page = "pos"
    /\ isHolidayMode
    /\ toasts' = <<"Cannot process transaction">>
    /\ UNCHANGED remoteLog
    /\ UNCHANGED pwaVars
    /\ UNCHANGED posVars
    /\ UNCHANGED stockVars

\* handleCheckout, second return: empty cart
CheckoutEmpty ==
    /\ page = "pos"
    /\ ~isHolidayMode
    /\ Len(cart) = 0
    /\ toasts' = <<"Empty cart">>
    /\ UNCHANGED remoteLog
    /\ UNCHANGED pwaVars
    /\ UNCHANGED posVars
    /\ UNCHANGED stockVars

\* handleCheckout, the try block: record the transaction, write the stock,
\* queue the two operations when offline, navigate to the history route.
HandleCheckout(now) ==
    LET transaction == NewTransaction(cart, paymentMethod, now)
        updatedMenuItems == UpdatedMenuItems(menuItems, cart)
    IN
    /\ page = "pos"
    /\ ~isHolidayMode
    /\ Len(cart) # 0
    /\ networkStatus = "offline" => Room(2)
    /\ transactions' = Append(transactions, transaction)
    /\ savedMenuItems' = updatedMenuItems
    /\ pendingOperations' =
          IF networkStatus = "offline"
          THEN CheckoutOperations(pendingOperations, transaction, cart, now)
          ELSE pendingOperations
    /\ toasts' = <<"Transaction complete">>
    /\ page' = "history"
    /\ PosUnmount
    /\ UNCHANGED holidayModeStored
    /\ UNCHANGED <<networkStatus, renderedOps, mounting, storedOps>>
    /\ UNCHANGED remoteLog
    /\ UNCHANGED stockVars

\* handleCheckout while fewer than MaxTransactions transactions are recorded
\* (bound of the model).
Checkout(now) ==
    /\ Len(transactions) < MaxTransactions
    /\ HandleCheckout(now)

\* handleCheckout on the device of the selling session, while fewer than
\* MaxSessionTransactions transactions are recorded (bound of the model).
SessionCheckout(now) ==
    /\ Len(transactions) < MaxSessionTransactions
    /\ HandleCheckout(now)

\* handleCheckout when a localStorage.setItem of the try block throws (quota
\* exceeded): write 1 is 'transactions', write 2 is 'menuItems'.  The catch
\* block reports the error; nothing written before the throw is undone.
CheckoutWriteFails(now, failingWrite) ==
    LET transaction == NewTransaction(cart, paymentMethod, now) IN
    /\ page = "pos"
    /\ ~isHolidayMode
    /\ Len(cart) # 0
    /\ Len(transactions) < MaxTransactions
    /\ transactions' = IF failingWrite = 1
                       THEN transactions
                       ELSE Append(transactions, transaction)
    /\ toasts' = <<"Error processing transaction">>
    /\ UNCHANGED <<page, menuItems, savedMenuItems, cart, paymentMethod, isHolidayMode,
                   holidayModeStored>>
    /\ UNCHANGED remoteLog
    /\ UNCHANGED pwaVars
    /\ UNCHANGED stockVars

(***************************************************************************)
(* StockControl handlers                                                   *)
(***************************************************************************)
\* The store select
HandleStoreChange(storeId) ==
    /\ page = "stock"
    /\ storeId # selectedStoreId
    /\ selectedStoreId' = storeId
    /\ toasts' = <<>>
    /\ UNCHANGED <<stockControlBuild, stockItems, savedStockItems, sellingStartedStores,
                   savedSellingStarted, storeStocks>>
    /\ UNCHANGED remoteLog
    /\ UNCHANGED pwaVars
    /\ UNCHANGED posVars

\* handleStartSelling of StockControl.tsx
HandleStartSelling(now) ==
    LET updatedItems == StartSellingItems(stockItems, selectedStoreId)
        updatedSellingStarted == Append(sellingStartedStores, selectedStoreId)
    IN
    /\ page = "stock"
    /\ stockControlBuild = "local"
    /\ selectedStoreId # ""
    /\ Len(sellingStartedStores) < MaxStarted
    /\ networkStatus = "offline" => StockRoom
    /\ stockItems' = updatedItems
    /\ sellingStartedStores' = updatedSellingStarted
    /\ savedStockItems' = updatedItems
    /\ savedSellingStarted' = updatedSellingStarted
    /\ pendingOperations' =
          IF networkStatus = "offline"
          THEN addPendingOperation(pendingOperations,
                   StartSellingOperation(updatedItems, selectedStoreId, now), now)
          ELSE pendingOperations
    /\ toasts' = <<"Selling started">>
    /\ UNCHANGED <<stockControlBuild, selectedStoreId, storeStocks>>
    /\ UNCHANGED <<networkStatus, renderedOps, mounting, storedOps>>
    /\ UNCHANGED remoteLog
    /\ UNCHANGED posVars

\* handleEndSelling of StockControl.tsx
HandleEndSelling(now) ==
    LET updatedItems == EndSellingItems(stockItems, selectedStoreId)
        updatedSellingStarted == EndSellingStarted(sellingStartedStores, selectedStoreId)
    IN
    /\ page = "stock"
    /\ stockControlBuild = "local"
    /\ selectedStoreId # ""
    /\ networkStatus = "offline" => StockRoom
    /\ stockItems' = updatedItems
    /\ sellingStartedStores' = updatedSellingStarted
    /\ savedStockItems' = updatedItems
    /\ savedSellingStarted' = updatedSellingStarted
    /\ pendingOperations' =
          IF networkStatus = "offline"
          THEN addPendingOperation(pendingOperations,
                   EndSellingOperation(selectedStoreId, now), now)
          ELSE pendingOperations
    /\ toasts' = <<"Selling ended">>
    /\ UNCHANGED <<stockControlBuild, selectedStoreId, storeStocks>>
    /\ UNCHANGED <<networkStatus, renderedOps, mounting, storedOps>>
    /\ UNCHANGED remoteLog
    /\ UNCHANGED posVars

\* handleStockChange, first return: negative input
StockChangeInvalid(newStock) ==
    /\ page = "stock"
    /\ newStock < 0
    /\ toasts' = <<"Invalid stock value">>
    /\ UNCHANGED stockVars
    /\ UNCHANGED remoteLog
    /\ UNCHANGED pwaVars
    /\ UNCHANGED posVars

\* handleStockChange of StockControl.tsx, for an item of the listed rows
HandleStockChange(itemId, newStock, now) ==
    LET updatedItems == StockChangeItems(stockItems, itemId, newStock, selectedStoreId) IN
    /\ page = "stock"
    /\ stockControlBuild = "local"
    /\ \E k \in 1..Len(getStoreStockItems(stockItems, selectedStoreId)) :
          getStoreStockItems(stockItems, selectedStoreId)[k].id = itemId
    /\ newStock >= 0
    /\ networkStatus = "offline" => StockRoom
    /\ stockItems' = updatedItems
    /\ savedStockItems' = updatedItems
    /\ pendingOperations' =
          IF networkStatus = "offline"
          THEN addPendingOperation(pendingOperations,
                   StockItemOperation(selectedStoreId, itemId, newStock, now), now)
          ELSE pendingOperations
    /\ toasts' = <<>>
    /\ UNCHANGED <<stockControlBuild, sellingStartedStores, savedSellingStarted,
                   selectedStoreId, storeStocks>>
    /\ UNCHANGED <<networkStatus, renderedOps, mounting, storedOps>>
    /\ UNCHANGED remoteLog
    /\ UNCHANGED posVars

\* store_stocks after handleStartSelling of the remote build has written the
\* rows of the first n items.
RowsStarted(rows, updatedItems, selected, n) ==
    [r \in DOMAIN rows |->
        IF r[1] = selected /\ \E k \in 1..n : updatedItems[k].id = r[2]
        THEN Row(InitialStock(r[2]), TRUE)
        ELSE rows[r]]

\* store_stocks after handleEndSelling of the remote build
RowsEnded(rows, selected) ==
    [r \in DOMAIN rows |->
        IF r[1] = selected /\ rows[r].present
        THEN Row(rows[r].quantity, FALSE)
        ELSE rows[r]]

\* store_stocks after handleStockChange of the remote build
RowsChanged(rows, selected, itemId, newStock) ==
    [r \in DOMAIN rows |->
        IF r = <<selected, itemId>>
        THEN IF rows[r].present
             THEN Row(newStock, rows[r].is_active)
             ELSE Row(newStock, TRUE)
        ELSE rows[r]]

\* stockItems after the effect that reads the selected store's rows
FetchedStockItems(items, rows, selected) ==
    [k \in 1..Len(items) |->
        IF rows[<<selected, items[k].id>>].present
        THEN [items[k] EXCEPT !.currentStock = rows[<<selected, items[k].id>>].quantity,
                              !.storeId = selected]
        ELSE items[k]]

\* handleStartSelling of the remote build.  failAt = 0: every remote call
\* succeeds; failAt = k: a call for the k-th item returns an error.
HandleStartSellingRemote(now, failAt) ==
    LET updatedItems == StartSellingItemsRemote(stockItems, selectedStoreId)
        updatedSellingStarted == Append(sellingStartedStores, selectedStoreId)
    IN
    /\ page = "stock"
    /\ stockControlBuild = "remote"
    /\ selectedStoreId # ""
    /\ failAt <= Len(stockItems)
    /\ Len(sellingStartedStores) < MaxStarted
    /\ networkStatus = "offline" => StockRoom
    /\ IF failAt = 0
       THEN /\ storeStocks' = RowsStarted(storeStocks, updatedItems, selectedStoreId,
                                          Len(updatedItems))
            /\ stockItems' = updatedItems
            /\ sellingStartedStores' = updatedSellingStarted
            /\ savedStockItems' = updatedItems
            /\ savedSellingStarted' = updatedSellingStarted
            /\ pendingOperations' =
                  IF networkStatus = "offline"
                  THEN addPendingOperation(pendingOperations,
                           StartSellingOperation(updatedItems, selectedStoreId, now), now)
                  ELSE pendingOperations
            /\ toasts' = <<"Selling started">>
       ELSE /\ storeStocks' = RowsStarted(storeStocks, updatedItems, selectedStoreId,
                                          failAt - 1)
            /\ UNCHANGED <<stockItems, sellingStartedStores, savedStockItems,
                           savedSellingStarted, pendingOperations>>
            /\ toasts' = <<"Error">>
    /\ UNCHANGED <<stockControlBuild, selectedStoreId>>
    /\ UNCHANGED <<networkStatus, renderedOps, mounting, storedOps>>
    /\ UNCHANGED remoteLog
    /\ UNCHANGED posVars

\* handleEndSelling of the remote build; updated tells whether the remote
\* update succeeded.
HandleEndSellingRemote(now, updated) ==
    LET updatedItems == EndSellingItems(stockItems, selectedStoreId)
        updatedSellingStarted == EndSellingStarted(sellingStartedStores, selectedStoreId)
    IN
    /\ page = "stock"
    /\ stockControlBuild = "remote"
    /\ selectedStoreId # ""
    /\ networkStatus = "offline" => StockRoom
    /\ IF updated
       THEN /\ storeStocks' = RowsEnded(storeStocks, selectedStoreId)
            /\ stockItems' = updatedItems
            /\ sellingStartedStores' = updatedSellingStarted
            /\ savedStockItems' = updatedItems
            /\ savedSellingStarted' = updatedSellingStarted
            /\ pendingOperations' =
                  IF networkStatus = "offline"
                  THEN addPendingOperation(pendingOperations,
                           EndSellingOperation(selectedStoreId, now), now)
                  ELSE pendingOperations
            /\ toasts' = <<"Selling ended">>
       ELSE /\ UNCHANGED <<storeStocks, stockItems, sellingStartedStores,
                           savedStockItems, savedSellingStarted, pendingOperations>>
            /\ toasts' = <<"Error">>
    /\ UNCHANGED <<stockControlBuild, selectedStoreId>>
    /\ UNCHANGED <<networkStatus, renderedOps, mounting, storedOps>>
    /\ UNCHANGED remoteLog
    /\ UNCHANGED posVars

\* handleStockChange of the remote build, for an item of the listed rows;
\* updated tells whether the remote calls succeeded.
HandleStockChangeRemote(itemId, newStock, now, updated) ==
    LET updatedItems == StockChangeItems(stockItems, itemId, newStock, selectedStoreId) IN
    /\ page = "stock"
    /\ stockControlBuild = "remote"
    /\ \E k \in 1..Len(stockItems) : stockItems[k].id = itemId
    /\ newStock >= 0
    /\ networkStatus = "offline" => StockRoom
    /\ IF updated
       THEN /\ storeStocks' = RowsChanged(storeStocks, selectedStoreId, itemId, newStock)
            /\ stockItems' = updatedItems
            /\ savedStockItems' = updatedItems
            /\ pendingOperations' =
                  IF networkStatus = "offline"
                  THEN addPendingOperation(pendingOperations,
                           StockItemOperation(selectedStoreId, itemId, newStock, now), now)
                  ELSE pendingOperations
            /\ toasts' = <<>>
       ELSE /\ UNCHANGED <<storeStocks, stockItems, savedStockItems, pendingOperations>>
            /\ toasts' = <<"Error">>
    /\ UNCHANGED <<stockControlBuild, sellingStartedStores, savedSellingStarted,
                   selectedStoreId>>
    /\ UNCHANGED <<networkStatus, renderedOps, mounting, storedOps>>
    /\ UNCHANGED remoteLog
    /\ UNCHANGED posVars

\* The effect of the remote build that loads the selected store's rows of
\* today into the stock items (it runs after every change of the selection
\* or of the stock items).
FetchStoreStock ==
    /\ page = "stock"
    /\ stockControlBuild = "remote"
    /\ selectedStoreId # ""
    /\ stockItems' = FetchedStockItems(stockItems, storeStocks, selectedStoreId)
    /\ stockItems' # stockItems
    /\ toasts' = <<>>
    /\ UNCHANGED <<stockControlBuild, savedStockItems, sellingStartedStores,
                   savedSellingStarted, selectedStoreId, storeStocks>>
    /\ UNCHANGED remoteLog
    /\ UNCHANGED pwaVars
    /\ UNCHANGED posVars

Next ==
    \/ HandleOffline
    \/ HandleOnline
    \/ ProcessPendingOperationsCall
    \/ Render
    \/ Reload
    \/ \E p \in {"pos", "history", "settings"} : Navigate(p)
    \/ \E enabled \in BOOLEAN, now \in Clock : HandleHolidayModeToggle(enabled, now)
    \/ \E id \in Items : AddToCart(id)
    \/ \E id \in Items, q \in 0..(MaxStock + 1) : UpdateCartItemQuantity(id, q)
    \/ \E m \in {"cash", "qris"} : SetPaymentMethod(m)
    \/ CheckoutHoliday
    \/ CheckoutEmpty
    \/ \E now \in Clock : Checkout(now)
    \/ \E now \in Clock, failingWrite \in {1, 2} : CheckoutWriteFails(now, failingWrite)

Spec == Init /\ [][Next]_vars

(***************************************************************************)
(* The stock-control route.  POSInterface reads neither 'stockItems' nor   *)
(* 'sellingStartedStores' and StockControl reads neither 'menuItems' nor   *)
(* 'transactions', so the two pages are explored one at a time, each with  *)
(* the queue provider.  The queue only grows here: the reload and the      *)
(* consumer's call of the reconciler are steps of Spec.                    *)
(***************************************************************************)
StockInit ==
    /\ networkStatus \in {"online", "offline"}
    /\ pendingOperations = <<>>
    /\ renderedOps = <<>>
    /\ mounting = FALSE
    /\ storedOps = JsonStringify(<<>>)
    /\ toasts = <<>>
    /\ remoteLog = <<>>
    /\ page = "stock"
    /\ savedMenuItems = [i \in Items |-> IF i = 1 THEN MaxStock ELSE 1]
    /\ menuItems = savedMenuItems
    /\ cart = <<>>
    /\ paymentMethod = "cash"
    /\ isHolidayMode = FALSE
    /\ holidayModeStored = FALSE
    /\ transactions = <<>>
    /\ stockControlBuild \in {"local", "remote"}
    /\ savedStockItems = <<>>
    /\ savedSellingStarted = <<>>
    /\ storeStocks = [r \in Range(Stores) \X StockItemIds |-> NoRow]
    /\ stockItems = IF stockControlBuild = "local" THEN MockStockItems
                    ELSE FormattedStockItems
    /\ sellingStartedStores = <<>>
    /\ selectedStoreId = Stores[1]

StockNext ==
    \/ HandleOffline
    \/ HandleOnline
    \/ Render
    \/ \E p \in {"stock", "history"} : Navigate(p)
    \/ \E storeId \in Range(Stores) : HandleStoreChange(storeId)
    \/ \E now \in Clock : HandleStartSelling(now)
    \/ \E now \in Clock : HandleEndSelling(now)
    \/ \E newStock \in -1..MaxAdjust : StockChangeInvalid(newStock)
    \/ \E itemId \in StockItemIds, newStock \in -1..MaxAdjust, now \in Clock :
          HandleStockChange(itemId, newStock, now)
    \/ \E now \in Clock, failAt \in 0..Cardinality(StockItemIds) :
          HandleStartSellingRemote(now, failAt)
    \/ \E now \in Clock, updated \in BOOLEAN : HandleEndSellingRemote(now, updated)
    \/ \E itemId \in StockItemIds, newStock \in -1..MaxAdjust, now \in Clock,
          updated \in BOOLEAN :
          HandleStockChangeRemote(itemId, newStock, now, updated)
    \/ FetchStoreStock

StockSpec == StockInit /\ [][StockNext]_vars

(***************************************************************************)
(* The manager's selling session followed by the cashier's sale, on one    *)
(* device: the stock-control route of the localStorage build and the       *)
(* point-of-sale route.                                                    *)
(***************************************************************************)
SessionInit ==
    /\ StockInit
    /\ stockControlBuild = "local"

SessionNext ==
    \/ HandleOffline
    \/ HandleOnline
    \/ Render
    \/ \E p \in {"stock", "pos"} : Navigate(p)
    \/ \E now \in Clock : HandleStartSelling(now)
    \/ \E now \in Clock : HandleEndSelling(now)
    \/ \E id \in Items : AddToCart(id)
    \/ \E now \in Clock : SessionCheckout(now)

SessionSpec == SessionInit /\ [][SessionNext]_vars

(***************************************************************************)
(* Vocabulary of the properties                                            *)
(***************************************************************************)

\* A step of the reconciler: processPendingOperations is called, from the
\* 'online' listener or by a consumer of the context.
ReconcileCall == HandleOnline \/ ProcessPendingOperationsCall

\* A reconcile that gets past its guard and drains the queue it sees.
Drains == ProcessPendingOperationsCall /\ networkStatus = "online" /\ renderedOps # <<>>

\* Entries of the queue, in memory or persisted.
QueuedOps == Range(pendingOperations) \cup Range(JsonParse(storedOps))

(***************************************************************************)
(* C1.  When the remote mutation fails exactly on entry k of a queue of N  *)
(* entries, reconcile leaves exactly entries k..N in the queue, in their   *)
(* order, and emits the sync-failure notification.  The step of the code   *)
(* does not depend on the remote's answer, so the property is asked of     *)
(* every entry k the remote may reject.                                    *)
(***************************************************************************)
C1_FailureKeepsTail ==
    [][\A k \in 1..Len(renderedOps) :
          Drains =>
            /\ pendingOperations' = SubSeq(renderedOps, k, Len(renderedOps))
            /\ "Sync failed" \in Range(toasts')]_vars

(***************************************************************************)
(* C2.  No pending operation is silently dropped: an entry of the queue    *)
(* stays in the queue unless the remote system has received it.  Asked of  *)
(* the steps of the running application; what a page reload loses is C6.   *)
(***************************************************************************)
C2_NoOperationDropped ==
    [][Reload \/ \A op \in QueuedOps : op \in QueuedOps' \/ op \in Range(remoteLog')]_vars

(***************************************************************************)
(* C3.  When the network status goes from offline to online with a         *)
(* non-empty queue, the reconcile the listener starts empties the queue    *)
(* and emits the sync-success notification.  processPendingOperations has  *)
(* no await: whatever the listener does, it has done when it returns.      *)
(***************************************************************************)
C3_OnlineDrainsQueue ==
    [][(networkStatus = "offline" /\ networkStatus' = "online" /\ pendingOperations # <<>>)
         => (pendingOperations' = <<>> /\ "Sync complete" \in Range(toasts'))]_vars

(***************************************************************************)
(* C4.  The mutations the remote system receives during a reconcile are    *)
(* the queued operations, in the order they were issued.                   *)
(***************************************************************************)
C4_RemoteReceivesQueueInOrder ==
    [][Drains => remoteLog' = remoteLog \o renderedOps]_vars

\* An offline handler that queues operations.
OfflineToggle(enabled, now) == HandleHolidayModeToggle(enabled, now) /\ networkStatus = "offline"
OfflineCheckout(now) == Checkout(now) /\ networkStatus = "offline"
Enqueues ==
    \/ \E enabled \in BOOLEAN, now \in Clock : OfflineToggle(enabled, now)
    \/ \E now \in Clock : OfflineCheckout(now)

IsPrefix(p, q) == Len(p) <= Len(q) /\ SubSeq(q, 1, Len(p)) = p

(***************************************************************************)
(* C5.  The queue is the enqueued operations in insertion order: a handler *)
(* appends its entries at the end, in the order it issues them, and no     *)
(* step reorders, merges or removes duplicates among the entries already   *)
(* there (the queue only grows at the end, is emptied, or is read back on  *)
(* a reload).                                                              *)
(***************************************************************************)
C5_EnqueueAppendsInOrder ==
    [][/\ \A enabled \in BOOLEAN, now \in Clock :
            OfflineToggle(enabled, now) =>
              pendingOperations' = pendingOperations \o
                <<[type |-> "UPDATE_HOLIDAY_MODE",
                   data |-> [storeId |-> StoreId, branchId |-> BranchId,
                            holidayMode |-> enabled, timestamp |-> now],
                   timestamp |-> now]>>
       /\ \A now \in Clock :
            OfflineCheckout(now) =>
              pendingOperations' = pendingOperations \o
                <<[type |-> "CREATE_TRANSACTION",
                   data |-> NewTransaction(cart, paymentMethod, now),
                   timestamp |-> now],
                  [type |-> "UPDATE_STOCK", data |-> [items |-> cart], timestamp |-> now]>>
       /\ \/ IsPrefix(pendingOperations, pendingOperations')
          \/ pendingOperations' = <<>>
          \/ Reload]_vars

\* Two operations of the same kind for the same store are both queued.
C5_Witness ==
    /\ Len(pendingOperations) = 2
    /\ pendingOperations[1].type = "UPDATE_HOLIDAY_MODE"
    /\ pendingOperations[2].type = "UPDATE_HOLIDAY_MODE"

(***************************************************************************)
(* C6.  Enqueue persists synchronously: when a handler that queued         *)
(* operations has returned, the persisted queue contains them.             *)
(***************************************************************************)
C6_EnqueuePersistsSynchronously ==
    [][Enqueues => Range(pendingOperations') \subseteq Range(JsonParse(storedOps'))]_vars

(***************************************************************************)
(* C7.  Round trip across a restart: a reload of the application reads the *)
(* queue back from the store with the same entries in the same order, so   *)
(* that a drain after the reload works on the queue a drain without the    *)
(* reload would have worked on.                                            *)
(***************************************************************************)
C7_QueueSurvivesReload ==
    [][Reload => pendingOperations' = pendingOperations]_vars

(***************************************************************************)
(* C8.  A reconcile removes an entry only after the remote has confirmed   *)
(* that entry: the entries a reconcile step removes are a head of the      *)
(* queue that the remote has received, never the unconfirmed queue as a    *)
(* whole.                                                                  *)
(***************************************************************************)
C8_RemovedAfterConfirmation ==
    [][ReconcileCall =>
         \E n \in 0..Len(pendingOperations) :
            /\ pendingOperations' = SubSeq(pendingOperations, n + 1, Len(pendingOperations))
            /\ \A i \in 1..n : pendingOperations[i] \in Range(remoteLog')]_vars

(***************************************************************************)
(* C9.  A reconcile called while another is in flight (the call before it  *)
(* has drained the queue and the emptied queue is not committed yet) is a  *)
(* no-op: it submits nothing, clears nothing and emits no notification.    *)
(***************************************************************************)
C9_OverlappingReconcileIsNoOp ==
    (toasts = <<"Sync complete">> /\ renderedOps # pendingOperations)
        => LET r == processPendingOperations(networkStatus, renderedOps)
           IN  r.toasts = <<>> /\ r.sent = <<>> /\ ~r.cleared

\* Quantity of menu item id in the cart c.
Ordered(c, id) ==
    IF \E k \in 1..Len(c) : c[k].id = id
    THEN c[CHOOSE k \in 1..Len(c) : c[k].id = id].quantity
    ELSE 0

(***************************************************************************)
(* C10.  Checkout of a non-empty cart in a store that is not in holiday    *)
(* mode appends exactly one transaction to the persisted transactions and  *)
(* lowers the stock of every menu item of the cart by its cart quantity,   *)
(* leaving the stock of the other menu items as it was.                    *)
(***************************************************************************)
C10_CheckoutRecordsAndDecrements ==
    [][\A now \in Clock :
          Checkout(now) =>
            /\ Len(transactions') = Len(transactions) + 1
            /\ SubSeq(transactions', 1, Len(transactions)) = transactions
            /\ transactions'[Len(transactions')].items = cart
            /\ \A id \in Items :
                  /\ savedMenuItems'[id] = savedMenuItems[id] - Ordered(cart, id)
                  /\ menuItems'[id] = menuItems[id] - Ordered(cart, id)]_vars

\* A checkout of two units of item 1 alone has been recorded.
C10_Witness ==
    /\ Len(transactions) = 1
    /\ transactions[1].items = <<[id |-> 1, quantity |-> 2]>>
    /\ savedMenuItems[1] = MaxStock - 2
    /\ savedMenuItems[2] = 1

\* A step that completes a checkout.
Checkouts == \E now \in Clock : Checkout(now)

(***************************************************************************)
(* C11.  After a successful checkout the cart is empty, and from an empty  *)
(* cart no step records a transaction or changes the persisted stock: a    *)
(* second checkout without adding items is the empty-cart rejection.       *)
(***************************************************************************)
C11_CartEmptyAfterCheckout ==
    /\ [][Checkouts => cart' = <<>>]_vars
    /\ [][cart = <<>> => (transactions' = transactions
                          /\ savedMenuItems' = savedMenuItems)]_vars

\* A checkout has been recorded and the checkout after it was rejected.
C11_Witness ==
    /\ Len(transactions) = 1
    /\ savedMenuItems[1] = MaxStock - 1
    /\ page = "pos"
    /\ cart = <<>>
    /\ toasts = <<"Empty cart">>

(***************************************************************************)
(* C12.  Checkout with an empty cart, or while the store is in holiday     *)
(* mode, reports an error and changes nothing: the stock, the persisted    *)
(* transactions, the cart and the queue are as before; and no step records *)
(* a transaction or changes the persisted stock in either situation.       *)
(***************************************************************************)
C12_RejectedCheckoutChangesNothing ==
    /\ [][(CheckoutHoliday \/ CheckoutEmpty) =>
            /\ toasts' \in {<<"Cannot process transaction">>, <<"Empty cart">>}
            /\ menuItems' = menuItems
            /\ savedMenuItems' = savedMenuItems
            /\ transactions' = transactions
            /\ cart' = cart
            /\ pendingOperations' = pendingOperations
            /\ storedOps' = storedOps]_vars
    /\ [][(holidayModeStored \/ cart = <<>>) =>
            (transactions' = transactions /\ savedMenuItems' = savedMenuItems)]_vars

\* A checkout was refused because of holiday mode, with items in the cart.
C12_Witness ==
    /\ holidayModeStored
    /\ cart # <<>>
    /\ toasts = <<"Cannot process transaction">>

(***************************************************************************)
(* C13.  The quantity of every cart line is at most the stock of its menu  *)
(* item, and a call that the stock limit rejects leaves the cart as it     *)
(* was.                                                                    *)
(***************************************************************************)
C13_CartWithinStock ==
    /\ [](\A k \in 1..Len(cart) : cart[k].quantity <= menuItems[cart[k].id])
    /\ [][toasts' = <<"Stock limit reached">> => cart' = cart]_vars

\* A line has reached the stock of its item and a further unit was refused.
C13_Witness ==
    /\ toasts = <<"Stock limit reached">>
    /\ \E k \in 1..Len(cart) : cart[k].quantity = menuItems[cart[k].id]

(***************************************************************************)
(* C14.  Checkout persists the transaction and the decremented stock       *)
(* together: no step persists a new transaction without changing the       *)
(* persisted stock, or changes the persisted stock without persisting a    *)
(* transaction.                                                            *)
(***************************************************************************)
C14_TransactionAndStockTogether ==
    [][(transactions' # transactions) <=> (savedMenuItems' # savedMenuItems)]_vars

\* A start-selling handler that ran to its end, in either build.
StartSellings ==
    \/ \E now \in Clock : HandleStartSelling(now)
    \/ \E now \in Clock : HandleStartSellingRemote(now, 0)

\* The stock items of a list that are linked to a store.
ItemsOf(items, storeId) == {k \in 1..Len(items) : items[k].storeId = storeId}

\* C15: after startSelling(S) the current stock of every stock item linked to
\* store S equals the item's configured initial stock, in the page's state and
\* in the stored list, whatever the stock was before.
C15_StartSellingResetsStock ==
    [][StartSellings =>
          /\ \A k \in ItemsOf(stockItems', selectedStoreId) :
                /\ stockItems'[k].currentStock = InitialStock(stockItems'[k].id)
                /\ stockItems'[k].initialStock = InitialStock(stockItems'[k].id)
          /\ savedStockItems' = stockItems']_vars

\* A store was started twice in a row: every item is linked to it at its initial stock.
C15_Witness ==
    /\ toasts = <<"Selling started">>
    /\ sellingStartedStores = <<selectedStoreId, selectedStoreId>>
    /\ \A k \in 1..Len(stockItems) :
          /\ stockItems[k].storeId = selectedStoreId
          /\ stockItems[k].currentStock = InitialStock(stockItems[k].id)

\* An end-selling handler that ran to its end, in either build.
EndSellings ==
    \/ \E now \in Clock : HandleEndSelling(now)
    \/ \E now \in Clock : HandleEndSellingRemote(now, TRUE)

\* C16: after endSelling(S) the current stock of every stock item of store S
\* is 0 and the session of S is closed; the stock is still 0 once the effect
\* that the handler's state change triggers has run.
C16_EndSellingZeroesStock ==
    /\ [][EndSellings =>
             /\ \A k \in ItemsOf(stockItems', selectedStoreId) :
                   stockItems'[k].currentStock = 0
             /\ ~isSellingStarted(sellingStartedStores', selectedStoreId)]_vars
    /\ [][(toasts = <<"Selling ended">> /\ FetchStoreStock) =>
             \A k \in ItemsOf(stockItems', selectedStoreId) :
                 stockItems'[k].currentStock = 0]_vars

\* C17: startSelling(S) leaves the items of the other stores as they were
\* (stock and assignment) and changes no other store's session.
C17_StartSellingLeavesOtherStores ==
    [][StartSellings =>
          /\ \A k \in 1..Len(stockItems) :
                stockItems[k].storeId \notin {"", selectedStoreId}
                    => stockItems'[k] = stockItems[k]
          /\ \A s \in Range(Stores) \ {selectedStoreId} :
                isSellingStarted(sellingStartedStores', s)
                    <=> isSellingStarted(sellingStartedStores, s)]_vars

\* C18: startSelling(S) while the session of S is active changes nothing: the
\* stock stays, S is not recorded a second time and nothing is enqueued.
C18_StartWhileActiveIsNoOp ==
    [][(StartSellings /\ isSellingStarted(sellingStartedStores, selectedStoreId)) =>
          /\ stockItems' = stockItems
          /\ sellingStartedStores' = sellingStartedStores
          /\ pendingOperations' = pendingOperations]_vars

\* C19: while the selling session of the store is closed no checkout succeeds:
\* no transaction is recorded and no stock is written.
C19_NoCheckoutWhileClosed ==
    [][~isSellingStarted(savedSellingStarted, StoreId) =>
          (transactions' = transactions /\ savedMenuItems' = savedMenuItems)]_vars

\* C20: while the selling session of a store is closed, every current stock
\* the stock table shows for it is 0 and every stock the point of sale reads
\* for the store's menu is 0.
C20_ClosedReadsZero ==
    /\ [](~isSellingStarted(sellingStartedStores, selectedStoreId) =>
             \A k \in 1..Len(stockItems) :
                 CurrentStockCell(stockItems, sellingStartedStores, selectedStoreId, k) = 0)
    /\ []((page = "pos" /\ ~isSellingStarted(savedSellingStarted, StoreId)) =>
             \A id \in Items : menuItems[id] = 0)

\* C21: the stock that startSelling(S) initialises is the stock the point of
\* sale sells from: a checkout made while the session of the store is started
\* lowers the current stock of a stored stock item.
C21_StartSellingStockIsSoldStock ==
    [][(Checkouts /\ isSellingStarted(savedSellingStarted, StoreId)) =>
          \E k \in 1..Len(savedStockItems) :
              savedStockItems'[k].currentStock < savedStockItems[k].currentStock]_vars

\* C22: the queue is emptied or shortened only by the reconciler: every step
\* after which the queue holds fewer entries is a call of
\* processPendingOperations.
C22_OnlyReconcilerShortensQueue ==
    [][Len(pendingOperations') < Len(pendingOperations) => ReconcileCall]_vars

\* A call of a stock-control handler with an acceptable input, in either
\* build, whatever the remote system answers.
StartSellingCalls ==
    \/ \E now \in Clock : HandleStartSelling(now)
    \/ \E now \in Clock, failAt \in 0..Cardinality(StockItemIds) :
          HandleStartSellingRemote(now, failAt)
EndSellingCalls ==
    \/ \E now \in Clock : HandleEndSelling(now)
    \/ \E now \in Clock, updated \in BOOLEAN : HandleEndSellingRemote(now, updated)
StockChangeCalls ==
    \/ \E itemId \in StockItemIds, newStock \in 0..MaxAdjust, now \in Clock :
          HandleStockChange(itemId, newStock, now)
    \/ \E itemId \in StockItemIds, newStock \in 0..MaxAdjust, now \in Clock,
          updated \in BOOLEAN :
          HandleStockChangeRemote(itemId, newStock, now, updated)

\* The step appends exactly one entry, of the given type, to the queue.
AppendsOne(type) ==
    /\ Len(pendingOperations') = Len(pendingOperations) + 1
    /\ SubSeq(pendingOperations', 1, Len(pendingOperations)) = pendingOperations
    /\ pendingOperations'[Len(pendingOperations')].type = type

\* C23: startSelling, endSelling and adjustStock called while offline complete
\* their local change and append exactly one operation of their kind, the
\* start-selling one carrying the store's items as they are after the start;
\* none is given up because the remote system does not answer.
C23_OfflineStockOperationsEnqueue ==
    /\ [][(networkStatus = "offline" /\ StartSellingCalls) =>
             /\ AppendsOne("START_SELLING")
             /\ isSellingStarted(sellingStartedStores', selectedStoreId)
             /\ pendingOperations'[Len(pendingOperations')].data.items =
                    SelectSeq(savedStockItems', LAMBDA item : item.storeId = selectedStoreId)]_vars
    /\ [][(networkStatus = "offline" /\ EndSellingCalls) =>
             /\ AppendsOne("END_SELLING")
             /\ ~isSellingStarted(sellingStartedStores', selectedStoreId)]_vars
    /\ [][(networkStatus = "offline" /\ StockChangeCalls) =>
             /\ AppendsOne("UPDATE_STOCK_ITEM")
             /\ savedStockItems' = stockItems']_vars

\* C24: a successful checkout made while offline appends exactly two
\* operations at the end of the queue: the create-transaction operation with
\* the recorded transaction, immediately followed by the update-stock
\* operation with the lines of the cart.
C24_OfflineCheckoutAppendsTwo ==
    [][(Checkouts /\ networkStatus = "offline") =>
          LET n == Len(pendingOperations) IN
          /\ Len(pendingOperations') = n + 2
          /\ SubSeq(pendingOperations', 1, n) = pendingOperations
          /\ pendingOperations'[n + 1].type = "CREATE_TRANSACTION"
          /\ pendingOperations'[n + 1].data = transactions'[Len(transactions')]
          /\ pendingOperations'[n + 2].type = "UPDATE_STOCK"
          /\ pendingOperations'[n + 2].data.items = cart]_vars

\* An offline checkout has just queued its two operations.
C24_Witness ==
    /\ networkStatus = "offline"
    /\ toasts = <<"Transaction complete">>
    /\ Len(pendingOperations) = 2
    /\ pendingOperations[1].type = "CREATE_TRANSACTION"
    /\ pendingOperations[1].data = transactions[Len(transactions)]
    /\ pendingOperations[2].type = "UPDATE_STOCK"

\* C25: adjustStock with a negative quantity is refused with an error and
\* changes nothing (stock items, stored stock, selling status, queue); with a
\* quantity of 0 or more it sets the current stock of exactly that item to
\* the quantity, in the page's state and in the stored list.
C25_AdjustStockValidates ==
    /\ [][toasts' = <<"Invalid stock value">> =>
             /\ stockItems' = stockItems
             /\ savedStockItems' = savedStockItems
             /\ sellingStartedStores' = sellingStartedStores
             /\ savedSellingStarted' = savedSellingStarted
             /\ storeStocks' = storeStocks
             /\ pendingOperations' = pendingOperations]_vars
    /\ [][\A itemId \in StockItemIds, newStock \in 0..MaxAdjust :
             (\E now \in Clock : \/ HandleStockChange(itemId, newStock, now)
                                 \/ HandleStockChangeRemote(itemId, newStock, now, TRUE))
             => /\ Len(stockItems') = Len(stockItems)
                /\ \A k \in 1..Len(stockItems) :
                      stockItems'[k].currentStock =
                          IF stockItems[k].id = itemId THEN newStock
                          ELSE stockItems[k].currentStock
                /\ savedStockItems' = stockItems']_vars

\* An item was adjusted below its initial stock while another item kept
\* its own, and a negative quantity was then refused.
C25_Witness ==
    /\ toasts = <<"Invalid stock value">>
    /\ Len(stockItems) = 2
    /\ stockItems[1].currentStock = 1
    /\ stockItems[2].currentStock = 0
    /\ savedStockItems = stockItems

\* C26: any two transactions that checkout has recorded have different ids,
\* also when both checkouts read the same value of the clock.
C26_TransactionIdsDistinct ==
    \A i, j \in 1..Len(transactions) :
        i # j => transactions[i].id # transactions[j].id

\* The unit price of a menu item for a payment method.
PriceFor(id, method) == IF method = "cash" THEN cashPrice(id) ELSE qrisPrice(id)

RECURSIVE SumOfLines(_, _, _)
\* Quantity times unit price, summed over the menu items of S that have a
\* line in the cart.
SumOfLines(S, c, method) ==
    IF S = {} THEN 0
    ELSE LET id == CHOOSE x \in S : TRUE
         IN  PriceFor(id, method) * CartQuantity(c, id) + SumOfLines(S \ {id}, c, method)

\* C27: the total recorded in a transaction is the sum over the cart lines of
\* quantity times the item's price for the payment method selected at
\* checkout, and the total the page computes is that sum in every state.
C27_TotalIsSumOfLines ==
    /\ [][Checkouts =>
             /\ transactions'[Len(transactions')].total = SumOfLines(Items, cart, paymentMethod)
             /\ transactions'[Len(transactions')].paymentMethod = paymentMethod
             /\ transactions'[Len(transactions')].items = cart]_vars
    /\ [](calculateTotal(cart, paymentMethod) = SumOfLines(Items, cart, paymentMethod))

\* A QRIS sale of two units of item 1 and one unit of item 2 was recorded.
C27_Witness ==
    /\ Len(transactions) = 1
    /\ transactions[1].paymentMethod = "qris"
    /\ Len(transactions[1].items) = 2
    /\ transactions[1].total = 2 * qrisPrice(1) + qrisPrice(2)
    /\ savedMenuItems = [i \in Items |-> 0]

\* C28: after any sequence of addToCart, updateQuantity, removeFromCart and
\* checkout the stock of every menu item is at least 0, on the page and in
\* the stored catalogue.
C28_StockNeverNegative ==
    \A id \in Items : menuItems[id] >= 0 /\ savedMenuItems[id] >= 0

\* A checkout has sold the last units of an item.
C28_Witness ==
    /\ toasts = <<"Transaction complete">>
    /\ Len(transactions) = 1
    /\ \E id \in Items : savedMenuItems[id] = 0 /\ Ordered(transactions[1].items, id) > 0

\* A handler of a page that changes the local data: checkout, the holiday
\* switch, start selling, end selling, a stock adjustment.
DataOperations ==
    \/ \E now \in Clock : HandleCheckout(now)
    \/ \E now \in Clock, failingWrite \in {1, 2} : CheckoutWriteFails(now, failingWrite)
    \/ \E enabled \in BOOLEAN, now \in Clock : HandleHolidayModeToggle(enabled, now)
    \/ StartSellingCalls
    \/ EndSellingCalls
    \/ StockChangeCalls

\* C29: an operation made while the network status is online leaves the queue
\* as it was, and the queue gets a new entry only in a step made while the
\* status is offline (a reload reads back entries that were queued before).
C29_OnlineOperationsLeaveQueue ==
    /\ [][(networkStatus = "online" /\ DataOperations) =>
             pendingOperations' = pendingOperations]_vars
    /\ [][(Len(pendingOperations') > Len(pendingOperations) /\ ~Reload) =>
             (networkStatus = "offline" /\ DataOperations)]_vars

\* The holiday switch was flipped offline and queued; back online it was
\* flipped again and the queue still holds only the first operation.
C29_Witness ==
    /\ networkStatus = "online"
    /\ toasts = <<"Holiday mode disabled">>
    /\ Len(pendingOperations) = 1
    /\ pendingOperations[1].type = "UPDATE_HOLIDAY_MODE"
    /\ pendingOperations[1].data.holidayMode

\* C30: processPendingOperations called while the network status is offline,
\* or while the queue is empty, returns without clearing the queue and
\* without a notification.
C30_ReconcileOfflineOrEmptyIsNoOp ==
    (networkStatus = "offline" \/ pendingOperations = <<>>)
        => LET r == processPendingOperations(networkStatus, renderedOps)
           IN  r.toasts = <<>> /\ ~r.cleared

====
